---- MODULE Spec2Model ----
(***************************************************************************)
(* Logarithmic Multi-Tier Hash Tree (lmtht): the append-only storage, the  *)
(* entry codec, open/recovery, append and the query engine of src/lib.rs,  *)
(* over a byte-level model of MemStorage.                                  *)
(*                                                                         *)
(* The storage is the byte vector of MemStorage.  Integers are written and *)
(* read little-endian with the widths of the code.  Every position, index  *)
(* and length a run of the model produces is far below Clamp = 2^24; a     *)
(* field that decodes to 2^24 or more (only possible after a byte of the   *)
(* storage was altered from outside) is read as Clamp, which is beyond     *)
(* every storage length, index and payload length of the model.            *)
(***************************************************************************)
EXTENDS Integers, Sequences, FiniteSets, TLC

(***************************************************************************)
(* Bounds of the model.                                                    *)
(***************************************************************************)
\* the greatest number of entries a storage of Spec holds
MaxAppends == 4
\* the greatest number of entries a storage holds when a byte is altered
MaxTamperAppends == 2
\* the greatest index of an entry appended when writes may fail
MaxFaultAppends == 3
\* the greatest length of a storage that was not written by the program
MaxForeignLen == 5
\* the greatest number of entries of a storage whose tail is altered or extended
MaxTailAppends == 2
\* the greatest number of entries of a run with a single payload per index
MaxDeepAppends == 8

(***************************************************************************)
(* Program constants.                                                      *)
(***************************************************************************)
\* HASH_SIZE of the highwayhash64 build
HASH_SIZE == 8
\* bit width of Index (u64)
INDEX_SIZE == 64
MAX_PAYLOAD_SIZE == 2147483647
STORAGE_IDENTIFIER == <<1, 243, 51>>
STORAGE_VERSION == 1

\* the payloads an append is called with
Payloads == {<<>>, <<7>>}
\* stands for a payload of MAX_PAYLOAD_SIZE + 1 bytes, which no sequence (and no
\* integer) of the model holds: no byte is -1, and append looks at its length only
TooLong == <<-1>>
\* value.len() > limit
len_exceeds_never(value, limit) == FALSE
len_exceeds(value, limit) ==
  IF value = TooLong THEN limit <= MAX_PAYLOAD_SIZE ELSE Len(value) > limit

(***************************************************************************)
(* Option<T> is a sequence of length 0 (None) or 1 (Some).                 *)
(***************************************************************************)
None == <<>>
Some(x) == <<x>>
IsSome(o) == Len(o) = 1
Unwrap(o) == o[1]

(***************************************************************************)
(* Result<T>: Ok(value), Err(detail), or a panic of the thread.            *)
(***************************************************************************)
Ok(v) == [kind |-> "ok", value |-> v, err |-> ""]
Err(e) == [kind |-> "err", value |-> <<>>, err |-> e]
Panic == [kind |-> "panic", value |-> <<>>, err |-> "panic"]
IsOk(r) == r.kind = "ok"
\* an Err or panic of r, returned as it is
Propagate(r) == [kind |-> r.kind, value |-> <<>>, err |-> r.err]
\* the `?` operator: the rest F of the function goes on with the value of an Ok,
\* an Err or a panic is returned as it is
AndThen(r, F(_)) == IF IsOk(r) THEN F(r.value) ELSE Propagate(r)
\* `let v = ...;` followed by the rest F of the function
Bind(v, F(_)) == F(v)

\* error::Detail, by its message
BadMagic == "bad magic"
IncompatibleVersion == "incompatible version"
DamagedStorage == "damaged storage"
ChecksumVerificationFailed == "checksum verification failed"
IncorrectEntryHeadOffset == "incorrect entry head offset"
IncorrectNodeBoundary == "incorrect node boundary"
TooLargePayload == "too large payload"
InternalStateInconsistency == "internal state inconsistency"
\* an io::Error of the cursor (a read_exact that meets the end of the storage)
IoError == "io error"

(***************************************************************************)
(* Little-endian integers (byteorder).                                     *)
(***************************************************************************)
Clamp == 256 * 256 * 256

RECURSIVE EncLE(_, _)
EncLE(v, w) == IF w = 0 THEN <<>> ELSE <<v % 256>> \o EncLE(v \div 256, w - 1)

RECURSIVE DecLE(_)
DecLE(bytes) ==
  IF bytes = <<>> THEN 0
  ELSE LET r == DecLE(Tail(bytes))
       IN IF r >= Clamp \div 256 THEN Clamp ELSE Head(bytes) + 256 * r

\* the w bytes of s at the 0-based position p
Bytes(s, p, w) == SubSeq(s, p + 1, p + w)
ReadInt(s, p, w) == DecLE(Bytes(s, p, w))

(***************************************************************************)
(* The hash primitive and the checksum primitive.  Both are parameters of  *)
(* the code (HighwayHash-64 in the highwayhash64 build); the model uses   *)
(* two polynomials over the bytes, each modulo a prime below 2^16, written *)
(* as two bytes each and padded with zeros to HASH_SIZE bytes.  A change   *)
(* of one byte of the input always changes the digest.                     *)
(***************************************************************************)
HashModulus == 46337
HashModulus2 == 46327

\* the polynomial of the bytes s[lo..hi] in mult modulo p, and mult^(hi - lo + 1):
\* computed by halves, so that the depth of the evaluation stays logarithmic
RECURSIVE Poly(_, _, _, _, _)
Poly(s, lo, hi, mult, p) ==
  IF lo > hi THEN <<0, 1>>
  ELSE IF lo = hi THEN <<(s[lo] + 1) % p, mult % p>>
  ELSE LET mid == (lo + hi) \div 2
           l == Poly(s, lo, mid, mult, p)
           r == Poly(s, mid + 1, hi, mult, p)
       IN <<(l[1] * r[2] + r[1]) % p, (l[2] * r[2]) % p>>

Digest(bytes, seed, mult, p) ==
  LET d == Poly(bytes, 1, Len(bytes), mult, p)
  IN (seed * d[2] + d[1]) % p

\* Hash::hash(value)
HashOf(value) ==
  EncLE(Digest(value, 5, 251, HashModulus), 2) \o EncLE(Digest(value, 3, 241, HashModulus2), 2)
    \o [k \in 1..(HASH_SIZE - 4) |-> 0]

\* Hash::combine: hash(self.hash || other.hash)
combine(self, other) == HashOf(self \o other)

\* the 64-bit checksum of HashRead / HashWrite over the bytes passed through
Checksum(bytes) == Digest(bytes, 11, 239, HashModulus)

(***************************************************************************)
(* The geometry model NthGenHashTree(n) (module model, not among the       *)
(* sources): the tree of generation n over the leaves 1..n.  The node that *)
(* covers the leaves lo..hi is b_{hi,j}; its left child is the largest     *)
(* perfect binary subtree that leaves at least one leaf to the right, and  *)
(* its height is the left child's height plus one (Node::parent).          *)
(* A generation is represented by its n.                                   *)
(***************************************************************************)
RECURSIVE FloorLog2(_)
FloorLog2(m) == IF m <= 1 THEN 0 ELSE 1 + FloorLog2(m \div 2)

CeilLog2(m) == IF m <= 1 THEN 0 ELSE 1 + FloorLog2(m - 1)

\* model::Node: the address (i, j) of the node covering the leaves lo..hi
SubtreeRoot(lo, hi) == [i |-> hi, j |-> CeilLog2(hi - lo + 1)]

\* the last leaf of the left child of the node covering lo..hi (lo < hi)
LeftEnd(lo, hi) == lo + (2 ^ FloorLog2(hi - lo)) - 1

\* NthGenHashTree::root
model_root(n) == SubtreeRoot(1, n)

RECURSIVE RightSpine(_, _)
RightSpine(lo, hi) ==
  IF lo >= hi THEN <<>>
  ELSE LET mid == LeftEnd(lo, hi)
       IN <<[node |-> SubtreeRoot(lo, hi),
             left |-> SubtreeRoot(lo, mid),
             right |-> SubtreeRoot(mid + 1, hi)]>> \o RightSpine(mid + 1, hi)

\* NthGenHashTree::inodes: the internal nodes b_{n,j} made by the n-th append,
\* from the root downward
model_inodes_chain(n) ==
  IF n <= 1 THEN <<>>
  ELSE <<[node |-> SubtreeRoot(1, n), left |-> SubtreeRoot(1, n - 1),
          right |-> SubtreeRoot(n, n)]>>
model_inodes(n) == RightSpine(1, n)

RECURSIVE PathFrom(_, _, _, _)
PathFrom(lo, hi, i, j) ==
  IF SubtreeRoot(lo, hi) = [i |-> i, j |-> j] THEN Some(<<>>)
  ELSE IF lo >= hi \/ i < lo \/ i > hi THEN None
  ELSE LET mid == LeftEnd(lo, hi)
           next == IF i <= mid THEN SubtreeRoot(lo, mid) ELSE SubtreeRoot(mid + 1, hi)
           rest == IF i <= mid THEN PathFrom(lo, mid, i, j) ELSE PathFrom(mid + 1, hi, i, j)
       IN IF IsSome(rest) THEN Some(<<next>> \o Unwrap(rest)) ELSE None

\* NthGenHashTree::path_to: the nodes stepped through from the root of generation
\* n down to b_{i,j} (the steps' `step` fields), None when b_{i,j} is no node of it
path_to(n, i, j) == PathFrom(1, n, i, j)

\* model::is_pbst
is_pbst(i, j) == i % (2 ^ j) = 0

\* model::range: the leaves of the subtree b_{i,j}, <<start, end>>
range(i, j) ==
  LET span == IF is_pbst(i, j) THEN 2 ^ j ELSE i % (2 ^ j)
  IN <<i - span + 1, i>>

(***************************************************************************)
(* Addresses, nodes and entries.                                           *)
(***************************************************************************)
Address(i, j, position) == [i |-> i, j |-> j, position |-> position]
MetaInfo(address, hash) == [address |-> address, hash |-> hash]
INode(meta, left, right) == [meta |-> meta, left |-> left, right |-> right]
ENode(meta, payload) == [meta |-> meta, payload |-> payload]
Entry(enode, inodes) == [enode |-> enode, inodes |-> inodes]
\* the public Node {i, j, hash}
Node(i, j, hash) == [i |-> i, j |-> j, hash |-> hash]
for_node(meta) == Node(meta.address.i, meta.address.j, meta.hash)

(***************************************************************************)
(* The entry codec.                                                        *)
(***************************************************************************)
\* the serialized size of one INode: j - 1, left.position, left.i, left.j, hash
INodeSize == 1 + 8 + 8 + 1 + HASH_SIZE

write_inode_with_height(n) ==
  <<n.meta.address.j % INDEX_SIZE>> \o EncLE(n.left.position, 8)
    \o EncLE(n.left.i, 8) \o <<n.left.j % 256>> \o n.meta.hash
write_inode(n) ==
  <<(n.meta.address.j - 1) % INDEX_SIZE>> \o EncLE(n.left.position, 8)
    \o EncLE(n.left.i, 8) \o <<n.left.j % 256>> \o n.meta.hash

RECURSIVE write_inodes(_)
write_inodes(inodes) ==
  IF inodes = <<>> THEN <<>> ELSE write_inode(Head(inodes)) \o write_inodes(Tail(inodes))

\* the bytes write_entry passes to the cursor
write_entry_without_checksum(e) ==
  LET body == EncLE(e.enode.meta.address.i, 8) \o <<Len(e.inodes) % 256>>
                \o write_inodes(e.inodes)
                \o EncLE(Len(e.enode.payload), 4) \o e.enode.payload
                \o e.enode.meta.hash
  IN body \o EncLE(Len(body), 4)
write_entry(e) ==
  LET body == EncLE(e.enode.meta.address.i, 8) \o <<Len(e.inodes) % 256>>
                \o write_inodes(e.inodes)
                \o EncLE(Len(e.enode.payload), 4) \o e.enode.payload
                \o e.enode.meta.hash
      withOffset == body \o EncLE(Len(body), 4)
  IN withOffset \o EncLE(Checksum(withOffset), 8)

\* the write calls write_entry makes on the cursor, in order, each with its bytes;
\* write_all of an empty payload makes no call
RECURSIVE write_inodes_calls(_)
write_inodes_calls(inodes) ==
  IF inodes = <<>> THEN <<>>
  ELSE << <<(Head(inodes).meta.address.j - 1) % INDEX_SIZE>>,
          EncLE(Head(inodes).left.position, 8),
          EncLE(Head(inodes).left.i, 8),
          <<Head(inodes).left.j % 256>>,
          Head(inodes).meta.hash >> \o write_inodes_calls(Tail(inodes))
write_entry_calls(e) ==
  << EncLE(e.enode.meta.address.i, 8), <<Len(e.inodes) % 256>> >>
    \o write_inodes_calls(e.inodes)
    \o << EncLE(Len(e.enode.payload), 4) >>
    \o (IF e.enode.payload = <<>> THEN <<>> ELSE << e.enode.payload >>)
    \o << e.enode.meta.hash,
          SubSeq(write_entry(e), Len(write_entry(e)) - 11, Len(write_entry(e)) - 8),
          SubSeq(write_entry(e), Len(write_entry(e)) - 7, Len(write_entry(e))) >>

\* read_inodes with the cursor at `position`: the INodes and the cursor afterwards
read_inodes(s, position) ==
  IF position > Len(s) THEN Panic
  ELSE IF position + 9 > Len(s) THEN Err(IoError)
  ELSE
    LET i == ReadInt(s, position, 8)
        inode_count == s[position + 9]
        at(k) == position + 9 + INodeSize * (k - 1)
        jOf(k) == (s[at(k) + 1] % INDEX_SIZE) + 1
        inode(k) ==
          INode(MetaInfo(Address(i, jOf(k), position), Bytes(s, at(k) + 18, HASH_SIZE)),
                Address(ReadInt(s, at(k) + 9, 8), s[at(k) + 18], ReadInt(s, at(k) + 1, 8)),
                Address(i, IF k = 1 THEN 0 ELSE jOf(k - 1), position))
    IN IF at(inode_count + 1) > Len(s) THEN Err(IoError)
       ELSE Ok([inodes |-> [k \in 1..inode_count |-> inode(k)],
                pos |-> at(inode_count + 1)])

\* read_u32 & MAX_PAYLOAD_SIZE
ReadPayloadSize(s, p) ==
  DecLE(<<s[p + 1], s[p + 2], s[p + 3], s[p + 4] % 128>>)

\* read_entry_without_check with the cursor at `position`: the entry and the
\* cursor afterwards (at the trailer's offset field)
read_entry_without_check_or_zero(s, position, i_expected) ==
  AndThen(read_inodes(s, position), LAMBDA ri :
    Bind(IF Len(ri.inodes) > 0 THEN ri.inodes[1].meta.address.i ELSE 0, LAMBDA i :
      IF i # i_expected /\ i_expected # 0 THEN Err(IncorrectNodeBoundary)
      ELSE IF ri.pos + 4 > Len(s) THEN Err(IoError)
      ELSE Bind(ReadPayloadSize(s, ri.pos), LAMBDA payload_size :
        IF ri.pos + 4 + payload_size + HASH_SIZE > Len(s) THEN Err(IoError)
        ELSE Ok([entry |->
                   Entry(ENode(MetaInfo(Address(i, 0, position),
                                        Bytes(s, ri.pos + 4 + payload_size, HASH_SIZE)),
                               Bytes(s, ri.pos + 4, payload_size)),
                         ri.inodes),
                 pos |-> ri.pos + 4 + payload_size + HASH_SIZE]))))
read_entry_without_check(s, position, i_expected) ==
  AndThen(read_inodes(s, position), LAMBDA ri :
    Bind(IF Len(ri.inodes) > 0 THEN ri.inodes[1].meta.address.i ELSE 1, LAMBDA i :
      IF i # i_expected /\ i_expected # 0 THEN Err(IncorrectNodeBoundary)
      ELSE IF ri.pos + 4 > Len(s) THEN Err(IoError)
      ELSE Bind(ReadPayloadSize(s, ri.pos), LAMBDA payload_size :
        IF ri.pos + 4 + payload_size + HASH_SIZE > Len(s) THEN Err(IoError)
        ELSE Ok([entry |->
                   Entry(ENode(MetaInfo(Address(i, 0, position),
                                        Bytes(s, ri.pos + 4 + payload_size, HASH_SIZE)),
                               Bytes(s, ri.pos + 4, payload_size)),
                         ri.inodes),
                 pos |-> ri.pos + 4 + payload_size + HASH_SIZE]))))

\* read_entry with the cursor at `position`: the verified entry and the cursor
\* afterwards (at the next entry)
read_entry_unverified(s, position, i_expected) ==
  AndThen(read_entry_without_check(s, position, i_expected), LAMBDA re :
    Ok([entry |-> re.entry, pos |-> re.pos + 12]))
read_entry(s, position, i_expected) ==
  AndThen(read_entry_without_check(s, position, i_expected), LAMBDA re :
    IF re.pos + 4 > Len(s) THEN Err(IoError)
    ELSE IF re.pos - position # ReadInt(s, re.pos, 4) THEN Err(IncorrectEntryHeadOffset)
    ELSE IF re.pos + 12 > Len(s) THEN Err(IoError)
    ELSE IF Checksum(Bytes(s, position, re.pos - position + 4)) # ReadInt(s, re.pos + 4, 8)
      THEN Err(ChecksumVerificationFailed)
    ELSE Ok([entry |-> re.entry, pos |-> re.pos + 12]))

\* read_entry_without_check_to_end: the entry, and the cursor moved over the trailer
read_entry_without_check_to_end(s, position, i_expected) ==
  AndThen(read_entry_without_check(s, position, i_expected), LAMBDA re :
    Ok([entry |-> re.entry, pos |-> re.pos + 4 + 8]))

(***************************************************************************)
(* The latest cache: Cache(Option<CacheInner>), CacheInner {last_entry,    *)
(* model}; the model NthGenHashTree(n) is held as its n.                   *)
(***************************************************************************)
CacheInner(last_entry, model) == [last_entry |-> last_entry, model |-> model]

\* Cache::from_entry
from_entry_without_inodes(last_entry) ==
  IF IsSome(last_entry)
    THEN Some(CacheInner(Entry(Unwrap(last_entry).enode, <<>>),
                         Unwrap(last_entry).enode.meta.address.i))
    ELSE None
from_entry(last_entry) ==
  IF IsSome(last_entry)
    THEN Some(CacheInner(Unwrap(last_entry), Unwrap(last_entry).enode.meta.address.i))
    ELSE None

\* Cache::last_entry
last_entry(cache) == IF IsSome(cache) THEN Some(Unwrap(cache).last_entry) ELSE None

\* the meta information of the root of an entry: its last INode, or its ENode
RootMeta(e) == IF Len(e.inodes) > 0 THEN e.inodes[Len(e.inodes)].meta ELSE e.enode.meta

\* Cache::root
cache_root_leaf(cache) ==
  IF IsSome(cache) THEN Some(for_node(Unwrap(cache).last_entry.enode.meta)) ELSE None
cache_root(cache) ==
  IF IsSome(cache) THEN Some(for_node(RootMeta(Unwrap(cache).last_entry))) ELSE None

\* Cache::n
cache_n(cache) == IF IsSome(cache) THEN Unwrap(cache).last_entry.enode.meta.address.i ELSE 0

\* LMTHT::height
height(cache) == IF IsSome(cache) THEN Unwrap(cache_root(cache)).j ELSE 0

\* LMTHT::root_hash
root_hash(cache) == IF IsSome(cache) THEN Some(Unwrap(cache_root(cache)).hash) ELSE None

(***************************************************************************)
(* Root-guided entry lookup.                                               *)
(***************************************************************************)
\* the first element of seq that satisfies P, as an Option
FindFirst(seq, P(_)) ==
  LET hits == {k \in 1..Len(seq) : P(seq[k])}
  IN IF hits = {} THEN None
     ELSE Some(seq[CHOOSE k \in hits : \A m \in hits : k <= m])

\* the Option as a Result: Ok(its value), or the inconsistency error for None
OkOrInconsistency(o) == IF IsSome(o) THEN Ok(Unwrap(o)) ELSE Err(InternalStateInconsistency)

\* search_entry_position.read_inode
read_inode(s, addr) ==
  AndThen(read_inodes(s, addr.position), LAMBDA ri :
    OkOrInconsistency(FindFirst(ri.inodes, LAMBDA n : n.meta.address.j = addr.j)))

\* the loop of search_entry_position (with_branch = false), at its hop-th pass
RECURSIVE search_loop(_, _, _, _)
search_loop_strict(s, mover, i, hop) ==
  IF hop >= INDEX_SIZE THEN Err(InternalStateInconsistency)
  ELSE IF i > mover.left.i /\ i > mover.meta.address.i THEN Ok(None)
  ELSE Bind(IF i < mover.left.i THEN mover.left ELSE mover.right, LAMBDA next :
    IF next.i = i THEN Ok(Some(next.position))
    ELSE IF next.j = 0 THEN Ok(None)
    ELSE AndThen(read_inode(s, next), LAMBDA inode : search_loop(s, inode, i, hop + 1)))
search_loop(s, mover, i, hop) ==
  IF hop >= INDEX_SIZE THEN Err(InternalStateInconsistency)
  ELSE IF i > mover.left.i /\ i > mover.meta.address.i THEN Ok(None)
  ELSE Bind(IF i <= mover.left.i THEN mover.left ELSE mover.right, LAMBDA next :
    IF next.i = i THEN Ok(Some(next.position))
    ELSE IF next.j = 0 THEN Ok(None)
    ELSE AndThen(read_inode(s, next), LAMBDA inode : search_loop(s, inode, i, hop + 1)))

\* the passes of the loop of search_entry_position that begin, up to the one
\* that returns (INDEX_SIZE when the loop runs out)
RECURSIVE search_hops(_, _, _, _)
search_hops(s, mover, i, hop) ==
  IF hop >= INDEX_SIZE THEN hop
  ELSE IF i > mover.left.i /\ i > mover.meta.address.i THEN hop + 1
  ELSE Bind(IF i <= mover.left.i THEN mover.left ELSE mover.right, LAMBDA next :
    IF next.i = i \/ next.j = 0 THEN hop + 1
    ELSE Bind(read_inode(s, next), LAMBDA inode :
           IF IsOk(inode) THEN search_hops(s, inode.value, i, hop + 1) ELSE hop + 1))

\* search_entry_position: the position of the entry of index i, below `root`
search_entry_position_root(s, root, i) ==
  IF i = 0 \/ i > root.meta.address.i THEN Ok(None)
  ELSE Ok(Some(root.meta.address.position))
search_entry_position(s, root, i) ==
  IF root.meta.address.i = i THEN Ok(Some(root.meta.address.position))
  ELSE IF i = 0 \/ i > root.meta.address.i THEN Ok(None)
  ELSE search_loop(s, root, i, 0)

\* Query::get_entry_position over Cache::root_ref
get_entry_position_of_inode_root(gen, s, i) ==
  IF ~IsSome(gen) THEN Ok(None)
  ELSE Bind(Unwrap(gen).last_entry, LAMBDA e :
    IF Len(e.inodes) > 0 THEN search_entry_position(s, e.inodes[Len(e.inodes)], i)
    ELSE Ok(None))
get_entry_position(gen, s, i) ==
  IF ~IsSome(gen) THEN Ok(None)
  ELSE Bind(Unwrap(gen).last_entry, LAMBDA e :
    IF Len(e.inodes) > 0 THEN search_entry_position(s, e.inodes[Len(e.inodes)], i)
    ELSE IF e.enode.meta.address.i = i THEN Ok(Some(e.enode.meta.address.position))
    ELSE Ok(None))

\* the meta information of the node of height j in the entry at `position`
node_at_leaf(s, position, i, j) ==
  AndThen(read_entry_without_check(s, position, i), LAMBDA re :
    Ok(Some(re.entry.enode.meta)))
node_at(s, position, i, j) ==
  IF j = 0
    THEN AndThen(read_entry_without_check(s, position, i), LAMBDA re :
           Ok(Some(re.entry.enode.meta)))
    ELSE AndThen(read_inodes(s, position), LAMBDA ri :
           Bind(FindFirst(ri.inodes, LAMBDA n : n.meta.address.j = j), LAMBDA inode :
             Ok(IF IsSome(inode) THEN Some(Unwrap(inode).meta) ELSE None)))

\* Query::get_node: the meta information of b_{i,j}
get_node(gen, s, i, j) ==
  AndThen(get_entry_position(gen, s, i), LAMBDA position :
    IF IsSome(position) THEN node_at(s, Unwrap(position), i, j) ELSE Ok(None))

\* Query::get
get_by_root_position(gen, s, i) ==
  IF ~IsSome(gen) THEN Ok(None)
  ELSE AndThen(read_entry_without_check(
                 s, RootMeta(Unwrap(gen).last_entry).address.position, 0),
               LAMBDA re : Ok(Some(re.entry.enode.payload)))
get(gen, s, i) ==
  AndThen(get_node(gen, s, i, 0), LAMBDA node :
    IF ~IsSome(node) THEN Ok(None)
    ELSE AndThen(read_entry_without_check(s, Unwrap(node).address.position,
                                          Unwrap(node).address.i),
                 LAMBDA re : Ok(Some(re.entry.enode.payload))))

(***************************************************************************)
(* Values with branches.                                                   *)
(***************************************************************************)
Value(i, value) == [i |-> i, value |-> value]
ValuesWithBranches(values, branches) == [values |-> values, branches |-> branches]

\* Value::to_node
to_node_unhashed(v) == Node(v.i, 0, HashOf(<<>>))
to_node(v) == Node(v.i, 0, HashOf(v.value))

\* Node::parent: the parent of `self` (left) and `right`
parent_above_right(self, right) ==
  Node(right.i, right.j + 1, combine(self.hash, right.hash))
parent_swapped(self, right) == Node(right.i, self.j + 1, combine(right.hash, self.hash))
parent(self, right) == Node(right.i, self.j + 1, combine(self.hash, right.hash))

\* one pass of the folding loop of ValuesWithBranches::root: the elements are
\* combined two by two and an unmatched last element is carried over
FoldLevelPaired(hashes) ==
  [k \in 1..(Len(hashes) \div 2) |-> parent(hashes[2 * k - 1], hashes[2 * k])]
FoldLevel(hashes) ==
  LET half == Len(hashes) \div 2
      fraction == Len(hashes) % 2
  IN [k \in 1..(half + fraction) |->
        IF k <= half THEN parent(hashes[2 * k - 1], hashes[2 * k])
        ELSE hashes[Len(hashes)]]

RECURSIVE FoldValues(_)
FoldValues(hashes) == IF Len(hashes) > 1 THEN FoldValues(FoldLevel(hashes)) ELSE hashes[1]

\* the loop over the branches of ValuesWithBranches::root, from the last branch
\* to the first
RECURSIVE FoldBranches(_, _)
FoldBranches(folding, branches) ==
  IF branches = <<>> THEN folding
  ELSE LET branch == branches[Len(branches)]
           up == IF folding.i < branch.i THEN parent(folding, branch)
                 ELSE parent(branch, folding)
       IN FoldBranches(up, SubSeq(branches, 1, Len(branches) - 1))

\* ValuesWithBranches::root
vwb_root(vwb) ==
  FoldBranches(FoldValues([k \in 1..Len(vwb.values) |-> to_node(vwb.values[k])]),
               vwb.branches)

\* the reading loop of get_values_belonging_to: the values of the entries i..i1,
\* read one after the other from the cursor at pos
RECURSIVE read_values(_, _, _, _)
read_values(s, pos, i, i1) ==
  IF i > i1 THEN Ok(<<>>)
  ELSE AndThen(read_entry_without_check_to_end(s, pos, i), LAMBDA re :
         AndThen(read_values(s, re.pos, i + 1, i1), LAMBDA rest :
           Ok(<<Value(i, re.entry.enode.payload)>> \o rest)))

\* the Option as a Result: Ok(its value), or the panic of `None => panic!()`
OkOrPanic(o) == IF IsSome(o) THEN Ok(Unwrap(o)) ELSE Panic

\* the first loop of get_values_belonging_to: down the left children to a leaf
leftmost_shallow(s, mover) == Ok(mover)
RECURSIVE leftmost(_, _)
leftmost(s, mover) ==
  IF mover.left.j = 0 THEN Ok(mover)
  ELSE AndThen(read_inodes(s, mover.left.position), LAMBDA ri :
         AndThen(OkOrPanic(FindFirst(ri.inodes, LAMBDA n : n.meta.address.j = mover.left.j)),
                 LAMBDA inode : leftmost(s, inode)))

\* Query::get_values_belonging_to
get_values_of_right_leaf(s, inode) ==
  read_values(s, inode.right.position, inode.right.i, inode.right.i)
get_values_belonging_to(s, inode) ==
  AndThen(leftmost(s, inode), LAMBDA mover :
    read_values(s, mover.left.position, mover.left.i,
                range(inode.meta.address.i, inode.meta.address.j)[2]))

\* one pass of the loop of get_values_with_hashes: the node of the branch, by its
\* INode among branch_inodes or by its entry
branch_node(s, branch, branch_inodes) ==
  IF branch.j > 0
    THEN AndThen(OkOrInconsistency(FindFirst(branch_inodes,
                                             LAMBDA n : n.meta.address.j = branch.j)),
                 LAMBDA inode : Ok(for_node(inode.meta)))
    ELSE AndThen(read_entry_without_check(s, branch.position, branch.i),
                 LAMBDA entry : Ok(for_node(entry.entry.enode.meta)))

\* the loop of get_values_with_hashes over the steps of the path
RECURSIVE walk(_, _, _, _, _)
walk_prepending(s, steps, prev, inodes, branches) ==
  IF steps = <<>>
    THEN AndThen(get_values_belonging_to(s, prev), LAMBDA values :
           Ok(Some(ValuesWithBranches(values, branches))))
  ELSE
    AndThen(read_inodes(s, prev.left.position), LAMBDA li :
      Bind(prev.left.i = Head(steps).i /\ prev.left.j = Head(steps).j, LAMBDA toLeft :
        Bind(IF toLeft THEN prev.left ELSE prev.right, LAMBDA next :
          Bind(IF toLeft THEN li.inodes ELSE inodes, LAMBDA next_inodes :
            AndThen(branch_node(s, IF toLeft THEN prev.right ELSE prev.left,
                                IF toLeft THEN inodes ELSE li.inodes),
                    LAMBDA node :
              IF next.j = 0
                THEN AndThen(read_entry_without_check(s, next.position, next.i), LAMBDA ne :
                       Ok(Some(ValuesWithBranches(<<Value(next.i, ne.entry.enode.payload)>>,
                                                  <<node>> \o branches))))
                ELSE AndThen(OkOrInconsistency(
                               FindFirst(next_inodes, LAMBDA n : n.meta.address = next)),
                             LAMBDA inode :
                       walk(s, Tail(steps), inode, next_inodes, <<node>> \o branches)))))))
walk(s, steps, prev, inodes, branches) ==
  IF steps = <<>>
    THEN AndThen(get_values_belonging_to(s, prev), LAMBDA values :
           Ok(Some(ValuesWithBranches(values, branches))))
  ELSE
    AndThen(read_inodes(s, prev.left.position), LAMBDA li :
      Bind(prev.left.i = Head(steps).i /\ prev.left.j = Head(steps).j, LAMBDA toLeft :
        Bind(IF toLeft THEN prev.left ELSE prev.right, LAMBDA next :
          Bind(IF toLeft THEN li.inodes ELSE inodes, LAMBDA next_inodes :
            AndThen(branch_node(s, IF toLeft THEN prev.right ELSE prev.left,
                                IF toLeft THEN inodes ELSE li.inodes),
                    LAMBDA node :
              IF next.j = 0
                THEN AndThen(read_entry_without_check(s, next.position, next.i), LAMBDA ne :
                       Ok(Some(ValuesWithBranches(<<Value(next.i, ne.entry.enode.payload)>>,
                                                  Append(branches, node)))))
                ELSE AndThen(OkOrInconsistency(
                               FindFirst(next_inodes, LAMBDA n : n.meta.address = next)),
                             LAMBDA inode :
                       walk(s, Tail(steps), inode, next_inodes, Append(branches, node))))))))

\* Query::get_values_with_hashes
get_values_with_hashes(gen, s, i, j) ==
  IF ~IsSome(gen) THEN Ok(None)
  ELSE
    Bind(Unwrap(gen).last_entry, LAMBDA last :
      IF i = 0 \/ i > Unwrap(gen).model THEN Ok(None)
      ELSE IF Len(last.inodes) = 0
        THEN AndThen(read_entry_without_check(s, last.enode.meta.address.position, i),
                     LAMBDA re :
               Ok(Some(ValuesWithBranches(<<Value(i, re.entry.enode.payload)>>, <<>>))))
      ELSE Bind(path_to(Unwrap(gen).model, i, j), LAMBDA path :
             IF ~IsSome(path) THEN Ok(None)
             ELSE walk(s, Unwrap(path), last.inodes[Len(last.inodes)], last.inodes, <<>>)))

(***************************************************************************)
(* Open (LMTHT::new / LMTHT::init).                                        *)
(***************************************************************************)
\* is_version_compatible
is_version_compatible_any(version) == TRUE
is_version_compatible(version) == version <= STORAGE_VERSION

\* back_to_safety: the cursor moved from `from` backward by `distance`.  A distance
\* beyond `from` takes `from - distance` below zero: the debug build panics on the
\* subtraction, the release build wraps and panics on the next read of the
\* MemCursor
back_to_safety(from, distance) ==
  IF distance > from THEN Panic
  ELSE IF from - distance < Len(STORAGE_IDENTIFIER) + 1 THEN Err(DamagedStorage)
  ELSE Ok(from - distance)

\* the tail entry of a storage of more than 4 bytes, as init reads it
read_tail_anywhere(s) ==
  AndThen(back_to_safety(Len(s), 4 + 8), LAMBDA at_offset :
    AndThen(back_to_safety(at_offset + 4, ReadInt(s, at_offset, 4) + 4), LAMBDA head :
      AndThen(read_entry(s, head, 0), LAMBDA re : Ok(Some(re.entry)))))
read_tail(s) ==
  AndThen(back_to_safety(Len(s), 4 + 8), LAMBDA at_offset :
    AndThen(back_to_safety(at_offset + 4, ReadInt(s, at_offset, 4) + 4), LAMBDA head :
      AndThen(read_entry(s, head, 0), LAMBDA re :
        IF re.pos # Len(s) THEN Err(DamagedStorage) ELSE Ok(Some(re.entry)))))

\* the storage after the header part of init
init_storage_unwritten(s) == s
init_storage(s) ==
  IF Len(s) = 0 THEN STORAGE_IDENTIFIER \o <<STORAGE_VERSION>> ELSE s

\* LMTHT::init on the storage s: Ok(the new latest cache) or the error
init_without_tail(s) ==
  IF Len(s) \in 1..3 THEN Err(BadMagic)
  ELSE IF Len(s) > 3 /\ Bytes(s, 0, 3) # STORAGE_IDENTIFIER THEN Err(BadMagic)
  ELSE IF Len(s) > 3 /\ ~is_version_compatible(s[4]) THEN Err(IncompatibleVersion)
  ELSE Ok(from_entry(None))
init(s) ==
  IF Len(s) \in 1..3 THEN Err(BadMagic)
  ELSE IF Len(s) > 3 /\ Bytes(s, 0, 3) # STORAGE_IDENTIFIER THEN Err(BadMagic)
  ELSE IF Len(s) > 3 /\ ~is_version_compatible(s[4]) THEN Err(IncompatibleVersion)
  ELSE IF Len(init_storage(s)) = 4 THEN Ok(from_entry(None))
  ELSE AndThen(read_tail(init_storage(s)), LAMBDA tail : Ok(from_entry(tail)))

(***************************************************************************)
(* Append (LMTHT::append).                                                 *)
(***************************************************************************)
Reverse(seq) == [k \in 1..Len(seq) |-> seq[Len(seq) + 1 - k]]

\* the loop of append over the planned INodes, bottom-up: the INodes built
RECURSIVE build_inodes(_, _, _, _, _, _)
build_inodes_left_here(cache, s, plan, position, right_hash, inodes) ==
  IF plan = <<>> THEN Ok(inodes)
  ELSE
    AndThen(get_node(cache, s, Head(plan).left.i, Head(plan).left.j), LAMBDA found :
      AndThen(OkOrInconsistency(found), LAMBDA left :
        Bind(combine(left.hash, right_hash), LAMBDA hash :
          build_inodes(cache, s, Tail(plan), position, hash,
            Append(inodes,
                   INode(MetaInfo(Address(Head(plan).node.i, Head(plan).node.j, position),
                                  hash),
                         Address(left.address.i, left.address.j, position),
                         Address(Head(plan).right.i, Head(plan).right.j, position)))))))
build_inodes_leaf_right(cache, s, plan, position, right_hash, inodes) ==
  IF plan = <<>> THEN Ok(inodes)
  ELSE
    AndThen(get_node(cache, s, Head(plan).left.i, Head(plan).left.j), LAMBDA found :
      AndThen(OkOrInconsistency(found), LAMBDA left :
        Bind(combine(left.hash, right_hash), LAMBDA hash :
          build_inodes(cache, s, Tail(plan), position, right_hash,
            Append(inodes,
                   INode(MetaInfo(Address(Head(plan).node.i, Head(plan).node.j, position),
                                  hash),
                         left.address,
                         Address(Head(plan).right.i, Head(plan).right.j, position)))))))
build_inodes_right_below(cache, s, plan, position, right_hash, inodes) ==
  IF plan = <<>> THEN Ok(inodes)
  ELSE
    AndThen(get_node(cache, s, Head(plan).left.i, Head(plan).left.j), LAMBDA found :
      AndThen(OkOrInconsistency(found), LAMBDA left :
        Bind(combine(left.hash, right_hash), LAMBDA hash :
          build_inodes(cache, s, Tail(plan), position, hash,
            Append(inodes,
                   INode(MetaInfo(Address(Head(plan).node.i, Head(plan).node.j, position),
                                  hash),
                         left.address,
                         Address(Head(plan).right.i, Head(plan).node.j - 1, position)))))))
build_inodes(cache, s, plan, position, right_hash, inodes) ==
  IF plan = <<>> THEN Ok(inodes)
  ELSE
    AndThen(get_node(cache, s, Head(plan).left.i, Head(plan).left.j), LAMBDA found :
      AndThen(OkOrInconsistency(found), LAMBDA left :
        Bind(combine(left.hash, right_hash), LAMBDA hash :
          build_inodes(cache, s, Tail(plan), position, hash,
            Append(inodes,
                   INode(MetaInfo(Address(Head(plan).node.i, Head(plan).node.j, position),
                                  hash),
                         left.address,
                         Address(Head(plan).right.i, Head(plan).right.j, position)))))))

\* the index append gives the new leaf
next_index_from_model(cache) == IF IsSome(cache) THEN Unwrap(cache).model ELSE 1
next_index(cache) == IF IsSome(cache) THEN Unwrap(cache_root(cache)).i + 1 ELSE 1

\* the entry append builds for `value` on the storage s
build_entry(cache, s, value) ==
  Bind(ENode(MetaInfo(Address(next_index(cache), 0, Len(s)), HashOf(value)), value),
       LAMBDA enode :
    AndThen(build_inodes(cache, s, Reverse(model_inodes(enode.meta.address.i)), Len(s),
                         enode.meta.hash, <<>>),
            LAMBDA inodes : Ok(Entry(enode, inodes))))

\* LMTHT::append: Ok([node, storage, cache]) or the error
append(cache, s, value) ==
  IF len_exceeds(value, MAX_PAYLOAD_SIZE) THEN Err(TooLargePayload)
  ELSE
    AndThen(build_entry(cache, s, value), LAMBDA entry :
      Ok([node |-> Node(entry.enode.meta.address.i, RootMeta(entry).address.j,
                        RootMeta(entry).hash),
          storage |-> s \o write_entry(entry),
          cache |-> Some(CacheInner(entry, entry.enode.meta.address.i))]))

(***************************************************************************)
(* The state.                                                              *)
(***************************************************************************)
VARIABLES
  storage,       \* the bytes of the storage (the buffer of MemStorage)
  opened,        \* whether an LMTHT instance exists on the storage
  latest_cache,  \* LMTHT.latest_cache of that instance
  query,         \* the Query in hand, if any: Some(its gen), the cache it captured
  hist,          \* per entry of the storage: the payload appended, the node the
                 \* append returned and the storage length after it (history)
  tampered,      \* Some(position) once a byte of the storage was altered from outside
  cut,           \* Some(k) while the storage is one that was cut after its k-th entry
  torn,          \* Some(m) once a write failed after m > 0 bytes of its entry went
                 \* to the storage (the model follows one such failure per run)
  emit,          \* Some(the append in progress) between two write calls of its
                 \* write_entry: the calls still to come and what it will return
  ret            \* the last operation, its arguments and what it returned

vars == <<storage, opened, latest_cache, query, hist, tampered, cut, torn, emit, ret>>

Returned(op, i, j, res, pre) == [op |-> op, i |-> i, j |-> j, res |-> res, pre |-> pre]

\* what an operation records of the state it started in
Pre == [n |-> cache_n(latest_cache), root |-> cache_root(latest_cache),
        len |-> Len(storage), opened |-> opened]

\* the heights a query is asked for
MaxHeight == CeilLog2(MaxAppends) + 1

Init ==
  /\ storage = <<>>
  /\ opened = FALSE
  /\ latest_cache = None
  /\ query = None
  /\ hist = <<>>
  /\ tampered = None
  /\ cut = None
  /\ torn = None
  /\ emit = None
  /\ ret = Returned("new", 0, 0, Ok(<<>>), [n |-> 0, root |-> None, len |-> 0,
                                           opened |-> FALSE])

\* LMTHT::new(storage), with r the result of init: a new instance on the storage,
\* in place of the one in hand
OpenWith(r) ==
  /\ storage' = IF IsOk(r) THEN init_storage(storage) ELSE storage
  /\ opened' = IsOk(r)
  /\ latest_cache' = IF IsOk(r) THEN r.value ELSE None
  /\ ret' = Returned("open", 0, 0, r, Pre)
  /\ UNCHANGED <<query, hist, tampered, cut, torn, emit>>

Open == OpenWith(init(storage))

\* the end of LMTHT::append(value), with r its result
AppendWith(value, r) ==
  /\ storage' = IF IsOk(r) THEN r.value.storage ELSE storage
  /\ latest_cache' = IF IsOk(r) THEN r.value.cache ELSE latest_cache
  /\ hist' = IF IsOk(r)
               THEN Append(hist, [value |-> value, root |-> r.value.node,
                                  end |-> Len(r.value.storage)])
               ELSE hist
  /\ ret' = [value |-> value]
             @@ Returned("append", 0, 0, IF IsOk(r) THEN Ok(r.value.node) ELSE r, Pre)
  /\ cut' = IF IsOk(r) THEN None ELSE cut
  /\ UNCHANGED <<torn, emit>>
  /\ UNCHANGED <<opened, query, tampered>>

\* LMTHT::append(value), while the storage holds fewer than `max` entries
AppendOp(value, max) ==
  /\ opened
  /\ tampered = None
  /\ cache_n(latest_cache) < max
  /\ AppendWith(value, append(latest_cache, storage, value))

\* the end of an LMTHT::append(value) whose write_entry fails with an I/O error of
\* the cursor after `written` bytes of the entry went to the tail of the storage;
\* r is what the append returns when no write fails
AppendFailWithCacheFirst(value, r, written) ==
  /\ IsOk(r)
  /\ written \in 0..(Len(r.value.storage) - Len(storage) - 1)
  /\ storage' = SubSeq(r.value.storage, 1, Len(storage) + written)
  /\ latest_cache' = r.value.cache
  /\ torn' = IF written = 0 THEN torn ELSE Some(written)
  /\ ret' = [value |-> value] @@ Returned("append", written, 0, Err(IoError), Pre)
  /\ UNCHANGED <<opened, query, hist, tampered, cut, emit>>
AppendFailWith(value, r, written) ==
  /\ IsOk(r)
  /\ written \in 0..(Len(r.value.storage) - Len(storage) - 1)
  /\ storage' = SubSeq(r.value.storage, 1, Len(storage) + written)
  /\ torn' = IF written = 0 THEN torn ELSE Some(written)
  /\ ret' = [value |-> value] @@ Returned("append", written, 0, Err(IoError), Pre)
  /\ UNCHANGED <<opened, latest_cache, query, hist, tampered, cut, emit>>

\* LMTHT::append(value) on a storage whose cursor fails while the entry is written
AppendFail(value, written, max) ==
  /\ opened
  /\ tampered = None
  /\ cache_n(latest_cache) < max
  /\ torn = None
  /\ AppendFailWith(value, append(latest_cache, storage, value), written)

\* LMTHT::query() with a cursor moved one byte beyond the end of the buffer
QueryNewAtEnd ==
  /\ opened
  /\ query' = Some(latest_cache)
  /\ storage' = storage \o <<0>>
  /\ ret' = Returned("query", 0, 0, Ok(<<>>), Pre)
  /\ UNCHANGED <<opened, latest_cache, hist, tampered, cut, torn, emit>>

\* LMTHT::query(): a Query that holds the current latest cache
QueryNew ==
  /\ opened
  /\ query' = Some(latest_cache)
  /\ ret' = Returned("query", 0, 0, Ok(<<>>), Pre)
  /\ UNCHANGED <<storage, opened, latest_cache, hist, tampered, cut, torn, emit>>

\* Query::get(i)
GetLatest(i) ==
  /\ IsSome(query)
  /\ ret' = Returned("get", i, 0, get(latest_cache, storage, i), Pre)
  /\ UNCHANGED <<storage, opened, latest_cache, query, hist, tampered, cut, torn, emit>>
Get(i) ==
  /\ IsSome(query)
  /\ ret' = Returned("get", i, 0, get(Unwrap(query), storage, i), Pre)
  /\ UNCHANGED <<storage, opened, latest_cache, query, hist, tampered, cut, torn, emit>>

\* Query::get_values_with_hashes(i, j)
GetValuesWithHashes(i, j) ==
  /\ IsSome(query)
  /\ ret' = Returned("get_values_with_hashes", i, j,
                     get_values_with_hashes(Unwrap(query), storage, i, j), Pre)
  /\ UNCHANGED <<storage, opened, latest_cache, query, hist, tampered, cut, torn, emit>>

\* the offset at which the k-th entry starts
EntryStart(k) == IF k = 1 THEN Len(STORAGE_IDENTIFIER) + 1 ELSE hist[k - 1].end

\* the storage is cut at the end of its k-th entry, k below the number of its
\* entries (an audit of a prior state); the instance and the query on the longer
\* storage are given up
Truncate(k) ==
  /\ tampered = None
  /\ k \in 1..(Len(hist) - 1)
  /\ storage' = SubSeq(storage, 1, hist[k].end)
  /\ hist' = SubSeq(hist, 1, k)
  /\ opened' = FALSE
  /\ latest_cache' = None
  /\ query' = None
  /\ cut' = Some(k)
  /\ ret' = Returned("truncate", k, 0, Ok(<<>>), Pre)
  /\ UNCHANGED <<tampered, torn, emit>>

\* one byte inside an entry is altered from outside the program
TamperDeltas == {1, 128}
Tamper(p, d) ==
  /\ tampered = None
  /\ Len(hist) >= 1
  /\ p \in 4..(Len(storage) - 1)
  /\ storage' = [storage EXCEPT ![p + 1] = (@ + d) % 256]
  /\ tampered' = Some(p)
  /\ ret' = Returned("tamper", p, d, Ok(<<>>), Pre)
  /\ UNCHANGED <<opened, latest_cache, query, hist, cut, torn, emit>>

Next ==
  \/ Open
  \/ \E value \in Payloads : AppendOp(value, MaxAppends)
  \/ QueryNew
  \/ \E i \in 0..(MaxAppends + 1) : Get(i)
  \/ \E i \in 0..(MaxAppends + 1), j \in 0..MaxHeight : GetValuesWithHashes(i, j)
  \/ \E k \in 1..MaxAppends : Truncate(k)

Spec == Init /\ [][Next]_vars

NextTamper ==
  \/ Open
  \/ \E value \in Payloads : AppendOp(value, MaxTamperAppends)
  \/ QueryNew
  \/ \E i \in 0..(MaxTamperAppends + 1) : Get(i)
  \/ \E p \in 4..(Len(storage) - 1), d \in TamperDeltas : Tamper(p, d)

SpecTamper == Init /\ [][NextTamper]_vars

\* the bytes of a storage that was not written by the program: those of the
\* header, and one below and one above the version
ForeignBytes == {0, 1, 2, 51, 243}

RECURSIVE SeqsOfLen(_, _)
SeqsOfLen(S, len) ==
  IF len = 0 THEN {<<>>}
  ELSE {Append(seq, b) : seq \in SeqsOfLen(S, len - 1), b \in S}

ForeignStorages == UNION {SeqsOfLen(ForeignBytes, len) : len \in 0..MaxForeignLen}

\* MemStorage::with(buffer) for any such buffer, before LMTHT::new
InitHeader ==
  /\ storage \in ForeignStorages
  /\ opened = FALSE
  /\ latest_cache = None
  /\ query = None
  /\ hist = <<>>
  /\ tampered = None
  /\ cut = None
  /\ torn = None
  /\ emit = None
  /\ ret = Returned("new", 0, 0, Ok(<<>>), [n |-> 0, root |-> None, len |-> Len(storage),
                                           opened |-> FALSE])

NextHeader == Open

SpecHeader == InitHeader /\ [][NextHeader]_vars

\* twelve bytes are added to the storage from outside, in the place of a
\* trailer: an offset that leads back to the start of the k-th entry, and eight
\* bytes of zero
AddTrailer(k) ==
  /\ tampered = None
  /\ k \in 1..Len(hist)
  /\ storage' = storage \o EncLE(Len(storage) - EntryStart(k), 4)
                         \o <<0, 0, 0, 0, 0, 0, 0, 0>>
  /\ tampered' = Some(Len(storage))
  /\ ret' = Returned("trailer", k, 0, Ok(<<>>), Pre)
  /\ UNCHANGED <<opened, latest_cache, query, hist, cut, torn, emit>>

\* runs that open storages whose tail was altered or extended from outside
NextTail ==
  \/ Open
  \/ \E value \in Payloads : AppendOp(value, MaxTailAppends)
  \/ \E p \in 4..(Len(storage) - 1), d \in TamperDeltas : Tamper(p, d)
  \/ \E k \in 1..MaxTailAppends : AddTrailer(k)

SpecTail == Init /\ [][NextTail]_vars

(***************************************************************************)
(* An append on a MemStorage write call by write call, each call holding   *)
(* the write lock of the buffer for itself, and a reader of the same        *)
(* buffer that takes the read lock between two calls.                       *)
(***************************************************************************)
MaxEmitAppends == 3

\* LMTHT::append(value) up to and including the first write call of write_entry;
\* r is what the append returns once its last call is made
EmitFirst(value, r) ==
  /\ IsOk(r)
  /\ Bind(write_entry_calls(Unwrap(r.value.cache).last_entry), LAMBDA calls :
       /\ storage' = storage \o Head(calls)
       /\ emit' = Some([value |-> value, r |-> r.value, calls |-> Tail(calls),
                        pre |-> Pre])
       /\ ret' = Returned("write", Len(Head(calls)), 0, Ok(<<>>), Pre))
  /\ UNCHANGED <<opened, latest_cache, query, hist, tampered, cut, torn>>

AppendStart(value, max) ==
  /\ opened
  /\ tampered = None
  /\ emit = None
  /\ cache_n(latest_cache) < max
  /\ EmitFirst(value, append(latest_cache, storage, value))

\* the next write call of the append in progress; after the last one the append
\* replaces the latest cache and returns
AppendContinue ==
  /\ IsSome(emit)
  /\ Bind(Unwrap(emit), LAMBDA em :
       /\ storage' = storage \o Head(em.calls)
       /\ IF Len(em.calls) > 1
            THEN /\ emit' = Some([em EXCEPT !.calls = Tail(em.calls)])
                 /\ ret' = Returned("write", Len(Head(em.calls)), 0, Ok(<<>>), Pre)
                 /\ UNCHANGED <<latest_cache, hist>>
            ELSE /\ emit' = None
                 /\ latest_cache' = em.r.cache
                 /\ hist' = Append(hist, [value |-> em.value, root |-> em.r.node,
                                          end |-> Len(storage) + Len(Head(em.calls))])
                 /\ ret' = [value |-> em.value]
                            @@ Returned("append", 0, 0, Ok(em.r.node), em.pre))
  /\ UNCHANGED <<opened, query, tampered, cut, torn>>

\* MemCursor::read on another cursor of the same buffer, at position 0 with room
\* for the whole buffer: what the reader sees while it holds the read lock
ReadLocked ==
  /\ opened
  /\ ret' = Returned("read", 0, 0, Ok(storage), Pre)
  /\ UNCHANGED <<storage, opened, latest_cache, query, hist, tampered, cut, torn, emit>>

NextEmit ==
  \/ emit = None /\ Open
  \/ \E value \in Payloads : AppendStart(value, MaxEmitAppends)
  \/ AppendContinue
  \/ ReadLocked

SpecEmit == Init /\ [][NextEmit]_vars

\* the payload of the k-th append of a run that grows a tall tree: each its own
DeepPayload(k) == <<k>>

\* the greatest height of a node of such a tree, and one above
MaxDeepHeight == CeilLog2(MaxDeepAppends) + 1

\* a run of appends that grows the tree to MaxDeepAppends entries, with reopening
\* and queries of every generation
NextDeep ==
  \/ Open
  \/ AppendOp(DeepPayload(cache_n(latest_cache) + 1), MaxDeepAppends)
  \/ QueryNew
  \/ \E i \in 0..(MaxDeepAppends + 1) : Get(i)
  \/ \E i \in 1..MaxDeepAppends, j \in 0..MaxDeepHeight : GetValuesWithHashes(i, j)

SpecDeep == Init /\ [][NextDeep]_vars

\* the longest entry of the model: the bytes a failing write may have written
MaxEntryLen == 33 + INodeSize * (CeilLog2(MaxFaultAppends) + 1) + 1

NextFault ==
  \/ Open
  \/ \E value \in Payloads \cup {TooLong} : AppendOp(value, MaxFaultAppends)
  \/ \E value \in Payloads, written \in 0..MaxEntryLen :
        AppendFail(value, written, MaxFaultAppends)

SpecFault == Init /\ [][NextFault]_vars

(***************************************************************************)
(* Properties.                                                             *)
(***************************************************************************)
\* the generation of the query in hand
QueryN == cache_n(Unwrap(query))
\* the query in hand is of the generation the instance is at
Current == opened /\ query = Some(latest_cache)
\* appends were made after the query in hand was made
Stale == IsSome(query) /\ QueryN < Len(hist)
\* what get(i) answers on the generation n of the history
Answer(n, i) == Ok(IF i \in 1..n THEN Some(hist[i].value) ELSE None)
\* the last operation returned Ok(Some(..))
ReturnedSome == IsOk(ret.res) /\ IsSome(ret.res.value)

\* C1 (density): on a tree of n entries, get(k) returns the k-th appended payload
\* for every k in 1..n, and None for k = 0 and for k > n.
C1_Density ==
  (ret.op = "get" /\ Current /\ tampered = None) => ret.res = Answer(Len(hist), ret.i)

C1_Witness ==
  /\ ret.op = "get" /\ Current /\ Len(hist) = 3 /\ ret.i = 2
  /\ hist[1].value # hist[2].value /\ hist[3].value # hist[2].value
  /\ ret.res = Ok(Some(hist[2].value))

\* C2 (proof verification): whenever get_values_with_hashes(i, j), j <= height(),
\* returns a result, the root the result folds to has the hash root_hash().
C2_ProofVerification ==
  (ret.op = "get_values_with_hashes" /\ Current /\ tampered = None /\ ReturnedSome
     /\ ret.j <= height(latest_cache))
    => Some(vwb_root(Unwrap(ret.res.value)).hash) = root_hash(latest_cache)

C2_Witness ==
  /\ ret.op = "get_values_with_hashes" /\ Current /\ ReturnedSome
  /\ Len(hist) = 4 /\ ret.i = 2 /\ ret.j = 1
  /\ Len(Unwrap(ret.res.value).values) = 2 /\ Len(Unwrap(ret.res.value).branches) = 1
  /\ Some(vwb_root(Unwrap(ret.res.value)).hash) = root_hash(latest_cache)

\* C3 (root consistency): for n >= 1, get_values_with_hashes(n, 0) returns a
\* result, and the root it folds to has the hash root_hash().
C3_RootConsistency ==
  (ret.op = "get_values_with_hashes" /\ Current /\ tampered = None
     /\ Len(hist) >= 1 /\ ret.i = Len(hist) /\ ret.j = 0)
    => /\ ReturnedSome
       /\ Some(vwb_root(Unwrap(ret.res.value)).hash) = root_hash(latest_cache)

C3_Witness ==
  /\ ret.op = "get_values_with_hashes" /\ Current /\ ReturnedSome
  /\ Len(hist) = 3 /\ ret.i = 3 /\ ret.j = 0
  /\ Len(Unwrap(ret.res.value).branches) = 1
  /\ Some(vwb_root(Unwrap(ret.res.value)).hash) = root_hash(latest_cache)

\* C4 (indices): an append on a tree of n entries returns the node of index
\* n + 1, and n() is that index afterwards.
C4_Indices ==
  (ret.op = "append")
    => /\ IsOk(ret.res)
       /\ ret.res.value.i = ret.pre.n + 1
       /\ cache_n(latest_cache) = ret.res.value.i

C4_Witness ==
  /\ ret.op = "append" /\ IsOk(ret.res) /\ ret.pre.n = 2
  /\ ret.res.value.i = 3 /\ cache_n(latest_cache) = 3

\* C5 (new root): after an append returned a node, root() is that node, its index
\* is n(), and the n of the cached model is the leaf index of the tail entry.
C5_NewRoot ==
  (ret.op = "append" /\ IsOk(ret.res))
    => /\ cache_root(latest_cache) = Some(ret.res.value)
       /\ Unwrap(cache_root(latest_cache)).i = cache_n(latest_cache)
       /\ Unwrap(latest_cache).model = Unwrap(latest_cache).last_entry.enode.meta.address.i

C5_Witness ==
  /\ ret.op = "append" /\ IsOk(ret.res) /\ ret.pre.n = 2
  /\ ret.res.value.j = 2
  /\ cache_root(latest_cache) = Some(ret.res.value)
  /\ Unwrap(latest_cache).model = 3

\* the bytes of s from the 0-based position p are exactly one entry, of index i
OneEntryFrom(s, p, i) ==
  Bind(read_entry(s, p, i), LAMBDA re : IsOk(re) /\ re.value.pos = Len(s))

\* C6 (append-only): an append leaves every byte of the storage before it as it
\* was and extends the storage by exactly one entry at the tail; no operation of
\* the instance or of a query rewrites or removes a byte.
C6_AppendOnly ==
  [][/\ ret'.op # "truncate"
          => /\ Len(storage') >= Len(storage)
             /\ SubSeq(storage', 1, Len(storage)) = storage
     /\ (ret'.op = "append" /\ IsOk(ret'.res))
          => /\ Len(storage') > Len(storage)
             /\ OneEntryFrom(storage', Len(storage), ret'.res.value.i)
     /\ ret'.op \in {"query", "get", "get_values_with_hashes"} => storage' = storage]_vars

C6_Witness ==
  /\ ret.op = "append" /\ IsOk(ret.res) /\ ret.pre.n = 3
  /\ Len(storage) > ret.pre.len
  /\ OneEntryFrom(storage, ret.pre.len, 4)

\* C7 (durability): opening again the storage an instance is on succeeds and
\* gives the same n(), root_hash() and root (i, j), and leaves the storage as it
\* was.
C7_Durability ==
  [][(ret'.op = "open" /\ opened /\ tampered = None)
       => /\ IsOk(ret'.res)
          /\ cache_n(latest_cache') = cache_n(latest_cache)
          /\ root_hash(latest_cache') = root_hash(latest_cache)
          /\ cache_root(latest_cache') = cache_root(latest_cache)
          /\ storage' = storage]_vars

C7_Witness ==
  /\ ret.op = "open" /\ ret.pre.opened /\ IsOk(ret.res)
  /\ ret.pre.n = 3 /\ cache_n(latest_cache) = 3
  /\ cache_root(latest_cache) = ret.pre.root
  /\ Unwrap(cache_root(latest_cache)).j = 2
  /\ Len(storage) = ret.pre.len

\* C8 (audit by truncation): on the storage cut at the end of its k-th entry, open
\* succeeds with n() = k and root_hash() the hash of the root the k-th append
\* returned, get(m) returns the m-th payload for m <= k, and get(k + 1) is None.
C8_Audit ==
  /\ (IsSome(cut) /\ ret.op = "open")
       => /\ IsOk(ret.res)
          /\ cache_n(latest_cache) = Unwrap(cut)
          /\ root_hash(latest_cache) = Some(hist[Unwrap(cut)].root.hash)
  /\ (IsSome(cut) /\ ret.op = "get")
       => /\ QueryN = Unwrap(cut)
          /\ ret.res = Answer(Unwrap(cut), ret.i)

C8_Witness ==
  /\ cut = Some(2) /\ ret.op = "get" /\ ret.i = 3 /\ ret.res = Ok(None)
  /\ cache_n(latest_cache) = 2
  /\ root_hash(latest_cache) = Some(hist[2].root.hash)

\* C9 (snapshot isolation): a query made at generation m stays at n() = m over
\* later appends, and its get and its get_values_with_hashes still answer for
\* generation m: the payloads of 1..m, None beyond m, and results that fold to
\* the root the m-th append returned.
C9_Snapshot ==
  [][/\ (IsSome(query) /\ ret'.op = "append") => query' = query
     /\ (Stale' /\ ret'.op = "get") => ret'.res = Answer(QueryN', ret'.i)
     /\ (Stale' /\ QueryN' >= 1 /\ ret'.op = "get_values_with_hashes"
           /\ ret'.i \in 1..QueryN' /\ ret'.j = 0)
          => IsOk(ret'.res) /\ IsSome(ret'.res.value)
     /\ (Stale' /\ QueryN' >= 1 /\ ret'.op = "get_values_with_hashes"
           /\ IsOk(ret'.res) /\ IsSome(ret'.res.value))
          => vwb_root(Unwrap(ret'.res.value)) = hist'[QueryN'].root]_vars

C9_Witness ==
  /\ Stale /\ QueryN = 2 /\ Len(hist) = 4
  /\ ret.op = "get" /\ ret.i = 3 /\ ret.res = Ok(None)
  /\ hist[3].value = <<7>>

\* the entry of the storage that holds the byte at the 0-based position p
EntryOf(p) == CHOOSE k \in 1..Len(hist) : EntryStart(k) <= p /\ p < hist[k].end
\* the bytes of the k-th entry that frame it: the INode count, the payload
\* length and the offset of the trailer
AtPayloadLength(k) == EntryStart(k) + 8 + 1 + INodeSize * Len(model_inodes(k))
FramingBytes(k) ==
  {EntryStart(k) + 8}
    \cup AtPayloadLength(k)..(AtPayloadLength(k) + 3)
    \cup (hist[k].end - 12)..(hist[k].end - 9)
PayloadBytes(k) ==
  (AtPayloadLength(k) + 4)..(AtPayloadLength(k) + 3 + Len(hist[k].value))
TamperedEntry == EntryOf(Unwrap(tampered))
TamperedTail == IsSome(tampered) /\ TamperedEntry = Len(hist)

RECURSIVE Replay(_)
Replay(values) ==
  IF values = <<>>
    THEN [node |-> None, storage |-> init_storage(<<>>), cache |-> init(<<>>).value]
    ELSE Bind(Replay(SubSeq(values, 1, Len(values) - 1)), LAMBDA before :
           append(before.cache, before.storage, values[Len(values)]).value)

HistValues == [k \in 1..Len(hist) |-> hist[k].value]

C16_OpenEmpty ==
  [][(ret'.op = "open" /\ (storage = <<>> \/ storage = <<1, 243, 51, 1>>)) =>
       /\ IsOk(ret'.res)
       /\ opened'
       /\ storage' = <<1, 243, 51, 1>>
       /\ cache_n(latest_cache') = 0
       /\ height(latest_cache') = 0
       /\ cache_root(latest_cache') = None
       /\ root_hash(latest_cache') = None
       /\ \A i \in 0..(MaxAppends + 1) :
            /\ get(latest_cache', storage', i) = Ok(None)
            /\ \A j \in 0..MaxHeight :
                 get_values_with_hashes(latest_cache', storage', i, j) = Ok(None)]_vars

\* an open of the storage that holds the four bytes an earlier open wrote
C16_Witness ==
  /\ ret.op = "open" /\ IsOk(ret.res)
  /\ ret.pre.len = 4
  /\ ret.pre.opened
  /\ storage = <<1, 243, 51, 1>>
  /\ cache_n(latest_cache) = 0

HasMagic(s) == Len(s) >= 3 /\ SubSeq(s, 1, 3) = <<1, 243, 51>>

ReturnedValues == ret.op = "get_values_with_hashes" /\ IsSome(query)

\* (i, j) is a node of the tree of generation n
IsNodeOf(n, i, j) == n >= 1 /\ i \in 1..n /\ IsSome(path_to(n, i, j))

\* C18: get_values_with_hashes(i, j) returns None when the tree is empty, when
\* i = 0, when i > n, and when (i, j) is not a node of the tree of generation n,
\* for every n >= 1, n = 1 included, where only the leaf (1, 0) has a result
C18_NoneOutsideTree ==
  (ReturnedValues /\ ~IsNodeOf(QueryN, ret.i, ret.j)) => ret.res = Ok(None)

\* the values of the result that get_values_with_hashes returned
ReturnedValuesOf == Unwrap(ret.res.value).values

\* C19: for a node (i, j) of the tree, the values get_values_with_hashes(i, j)
\* returns have consecutive indices, from the start of range(i, j) to its end,
\* which is i, and each value is the payload that was appended at its index
C19_RangeLaw ==
  (ReturnedValues /\ IsNodeOf(QueryN, ret.i, ret.j)) =>
    /\ ReturnedSome
    /\ Len(ReturnedValuesOf) >= 1
    /\ ReturnedValuesOf[1].i = range(ret.i, ret.j)[1]
    /\ ReturnedValuesOf[Len(ReturnedValuesOf)].i = range(ret.i, ret.j)[2]
    /\ range(ret.i, ret.j)[2] = ret.i
    /\ \A k \in 1..(Len(ReturnedValuesOf) - 1) :
         ReturnedValuesOf[k + 1].i = ReturnedValuesOf[k].i + 1
    /\ \A k \in 1..Len(ReturnedValuesOf) :
         ReturnedValuesOf[k].value = hist[ReturnedValuesOf[k].i].value

\* the values of the node (4, 2), two levels above its leaves, with payloads
\* that differ
C19_Witness ==
  /\ ReturnedValues /\ ReturnedSome
  /\ ret.i = 4 /\ ret.j = 2
  /\ Len(ReturnedValuesOf) = 4
  /\ ReturnedValuesOf[1].value # ReturnedValuesOf[2].value

\* C20: for a node (i, j) of the tree, get_values_with_hashes(i, j) returns
\* exactly 2^j values when i is a multiple of 2^j, and fewer than 2^j otherwise
C20_SizeLaw ==
  (ReturnedValues /\ IsNodeOf(QueryN, ret.i, ret.j)) =>
    /\ ReturnedSome
    /\ (ret.i % (2 ^ ret.j) = 0) => Len(ReturnedValuesOf) = 2 ^ ret.j
    /\ (ret.i % (2 ^ ret.j) # 0) => Len(ReturnedValuesOf) < 2 ^ ret.j

\* the values of the root (3, 2) of generation 3, which is not a full subtree
C20_Witness ==
  /\ ReturnedValues /\ ReturnedSome
  /\ QueryN = 3 /\ ret.i = 3 /\ ret.j = 2
  /\ Len(ReturnedValuesOf) = 3

\* the bytes of s from offset p are whole entries of indices i, i + 1, .. , each
\* starting where the one before ends, the last ending at the end of s
RECURSIVE WholeEntriesFrom(_, _, _)
WholeEntriesFrom(s, p, i) ==
  IF p = Len(s) THEN TRUE
  ELSE Bind(read_entry(s, p, i), LAMBDA re :
         IsOk(re) /\ WholeEntriesFrom(s, re.value.pos, i + 1))

\* C12: in every state reached by open and appends, successful or failed, the
\* storage is the 4-byte header followed by whole entries back to back: the
\* first at offset 4, each next one where the one before ends, and the length
\* of the storage is the end of the last
C12_WholeEntryLayout ==
  (tampered = None /\ Len(storage) > 0) =>
    /\ Len(storage) >= 4
    /\ SubSeq(storage, 1, 4) = <<1, 243, 51, 1>>
    /\ WholeEntriesFrom(storage, 4, 1)

\* C13: when append returns an error, the bytes of the storage below its length
\* before the call are unchanged (bytes may only have been added at the tail),
\* and n(), root() and root_hash() are what they were
C13_AppendErrorPolicy ==
  [][(ret'.op = "append" /\ ~IsOk(ret'.res)) =>
       /\ Len(storage') >= Len(storage)
       /\ SubSeq(storage', 1, Len(storage)) = storage
       /\ cache_n(latest_cache') = cache_n(latest_cache)
       /\ cache_root(latest_cache') = cache_root(latest_cache)
       /\ root_hash(latest_cache') = root_hash(latest_cache)
       /\ opened' = opened]_vars

\* an append on a tree of two entries that failed after it wrote part of its entry
C13_Witness ==
  /\ ret.op = "append"
  /\ ret.res = Err(IoError)
  /\ ret.i > 0
  /\ Len(storage) = ret.pre.len + ret.i
  /\ ret.pre.n = 2
  /\ cache_n(latest_cache) = 2

\* the storage ends with the part of an entry that a failed append wrote
TornTail ==
  /\ IsSome(torn)
  /\ Len(storage) = (IF hist = <<>> THEN 4 ELSE hist[Len(hist)].end) + Unwrap(torn)

\* C14: when an append failed after it wrote only a part of its entry, the next
\* open fails, and it fails with 'damaged storage'
C14_RecoveryAfterPartialWrite ==
  (ret.op = "open" /\ TornTail) => ret.res = Err(DamagedStorage)

\* C15: an append of a payload longer than MAX_PAYLOAD_SIZE fails with 'too
\* large payload' and leaves the storage, n() and root() as they were; no
\* payload of at most MAX_PAYLOAD_SIZE bytes, the empty one included, is
\* refused: its append succeeds unless a write to the storage fails
C15_PayloadSizeLimit ==
  [][(ret'.op = "append") =>
       /\ (ret'.value = TooLong) =>
            /\ ret'.res = Err(TooLargePayload)
            /\ storage' = storage
            /\ cache_n(latest_cache') = cache_n(latest_cache)
            /\ cache_root(latest_cache') = cache_root(latest_cache)
       /\ (ret'.value # TooLong) =>
            /\ Len(ret'.value) <= MAX_PAYLOAD_SIZE
            /\ IsOk(ret'.res) \/ ret'.res = Err(IoError)]_vars

\* an append of a payload of MAX_PAYLOAD_SIZE + 1 bytes to a tree of one entry
C15_Witness ==
  /\ ret.op = "append"
  /\ ret.value = TooLong
  /\ ret.res = Err(TooLargePayload)
  /\ ret.pre.n = 1
  /\ Len(storage) = ret.pre.len

(***************************************************************************)
(* C21..C30                                                                *)
(***************************************************************************)
\* C21: the node that ValuesWithBranches::root() rebuilds from a result of
\* get_values_with_hashes on generation n is the whole root node of that
\* generation: its i is n, its j is the height, its hash is the root hash, the
\* node the n-th append returned
C21_WholeRootNode ==
  (ReturnedValues /\ ReturnedSome) =>
    /\ vwb_root(Unwrap(ret.res.value)).i = QueryN
    /\ vwb_root(Unwrap(ret.res.value)).j = height(Unwrap(query))
    /\ Some(vwb_root(Unwrap(ret.res.value))) = cache_root(Unwrap(query))
    /\ vwb_root(Unwrap(ret.res.value)) = hist[QueryN].root

\* the result for (2, 1) on generation 3 folds to the node (3, 2)
C21_Witness ==
  /\ ReturnedValues /\ ReturnedSome
  /\ QueryN = 3 /\ ret.i = 2 /\ ret.j = 1
  /\ vwb_root(Unwrap(ret.res.value)) = Node(3, 2, hist[3].root.hash)
  /\ height(Unwrap(query)) = 2

\* C22: an append of v to an empty tree returns the node (1, 0, H(v)); after it
\* root_hash() is H(v), height() is 0, get(1) is v, and
\* get_values_with_hashes(1, 0) is the single value (1, v) with no branches
C22_FirstAppend ==
  (ret.op = "append" /\ ret.pre.n = 0) =>
    /\ ret.res = Ok(Node(1, 0, HashOf(ret.value)))
    /\ root_hash(latest_cache) = Some(HashOf(ret.value))
    /\ height(latest_cache) = 0
    /\ cache_n(latest_cache) = 1
    /\ get(latest_cache, storage, 1) = Ok(Some(ret.value))
    /\ get_values_with_hashes(latest_cache, storage, 1, 0)
         = Ok(Some(ValuesWithBranches(<<Value(1, ret.value)>>, <<>>)))

\* the first append, of a payload of one byte
C22_Witness ==
  /\ ret.op = "append" /\ ret.pre.n = 0
  /\ ret.value = <<7>>
  /\ ret.res = Ok(Node(1, 0, HashOf(<<7>>)))
  /\ Len(hist) = 1

\* an append has returned a node: the entry it wrote is the one the cache holds
Appended == ret.op = "append" /\ IsOk(ret.res)
WrittenEntry == Unwrap(latest_cache).last_entry
WrittenINodes == WrittenEntry.inodes

\* C23: every INode b_{i,j} written by append has right.i = i, right.j = j - 1,
\* left.i < i and left.j >= j - 1
C23_ChildAddresses ==
  Appended =>
    \A k \in 1..Len(WrittenINodes) :
      /\ WrittenINodes[k].right.i = WrittenINodes[k].meta.address.i
      /\ WrittenINodes[k].right.j = WrittenINodes[k].meta.address.j - 1
      /\ WrittenINodes[k].left.i < WrittenINodes[k].meta.address.i
      /\ WrittenINodes[k].left.j >= WrittenINodes[k].meta.address.j - 1

\* C23, amended: every INode b_{i,j} written by append has i the index of its
\* entry, right.i = i, right.j <= j - 1 with right.j the height of the INode
\* written before it in the entry (0 for the first), left.i < i and
\* left.j = j - 1; the INodes read back from the storage are the same
C23_ChildAddressesAmended ==
  Appended =>
    /\ \A k \in 1..Len(WrittenINodes) :
         /\ WrittenINodes[k].meta.address.i = WrittenEntry.enode.meta.address.i
         /\ WrittenINodes[k].right.i = WrittenINodes[k].meta.address.i
         /\ WrittenINodes[k].right.j <= WrittenINodes[k].meta.address.j - 1
         /\ WrittenINodes[k].right.j
              = (IF k = 1 THEN 0 ELSE WrittenINodes[k - 1].meta.address.j)
         /\ WrittenINodes[k].left.i < WrittenINodes[k].meta.address.i
         /\ WrittenINodes[k].left.j = WrittenINodes[k].meta.address.j - 1
    /\ read_inodes(storage, ret.pre.len).kind = "ok"
    /\ read_inodes(storage, ret.pre.len).value.inodes = WrittenINodes

\* the third append wrote the INode (3, 2), whose right child is the leaf (3, 0)
C23_Witness ==
  /\ Appended
  /\ Len(WrittenINodes) = 1
  /\ WrittenINodes[1].meta.address.i = 3 /\ WrittenINodes[1].meta.address.j = 2
  /\ WrittenINodes[1].right.j = 0
  /\ WrittenINodes[1].left.i = 2 /\ WrittenINodes[1].left.j = 1

\* the hash the storage holds for the node at the address, None when it holds none
StoredHashOf(addr) ==
  Bind(node_at(storage, addr.position, addr.i, addr.j), LAMBDA found :
    IF IsOk(found) /\ IsSome(found.value) THEN Some(Unwrap(found.value).hash) ELSE None)

\* the INode's hash combines the hashes stored for its left and its right child
CombinesChildren(inode) ==
  Bind(StoredHashOf(inode.left), LAMBDA left :
    Bind(StoredHashOf(inode.right), LAMBDA right :
      /\ IsSome(left)
      /\ IsSome(right)
      /\ inode.meta.hash = combine(Unwrap(left), Unwrap(right))))

\* the hash of the subtree over the leaves lo..hi of the payloads appended
RECURSIVE PayloadTreeHash(_, _)
PayloadTreeHash(lo, hi) ==
  IF lo >= hi THEN HashOf(hist[lo].value)
  ELSE combine(PayloadTreeHash(lo, LeftEnd(lo, hi)),
               PayloadTreeHash(LeftEnd(lo, hi) + 1, hi))

\* C24: each INode an append stored has the hash combine(hash stored for its
\* left child, hash stored for its right child), the stored hash of a leaf is
\* H(payload), and so the root hash is the hash of the tree over all n payloads
\* in their order
C24_HashInvariant ==
  Appended =>
    /\ read_inodes(storage, ret.pre.len).kind = "ok"
    /\ \A k \in 1..Len(WrittenINodes) :
         CombinesChildren(read_inodes(storage, ret.pre.len).value.inodes[k])
    /\ StoredHashOf(WrittenEntry.enode.meta.address) = Some(HashOf(ret.value))
    /\ root_hash(latest_cache) = Some(PayloadTreeHash(1, Len(hist)))

\* the fourth append stored the INodes (4, 1) and (4, 2)
C24_Witness ==
  /\ Appended
  /\ Len(hist) = 4
  /\ Len(WrittenINodes) = 2
  /\ CombinesChildren(WrittenINodes[2])
  /\ hist[3].value # hist[4].value

\* C25: for every INode of every entry written by append, the position of the
\* left child is below the position of the entry, it is the offset at which the
\* entry of index left.i starts, and the position of the right child is the
\* position of the entry itself
C25_LeftChildrenOlder ==
  Appended =>
    /\ WrittenEntry.enode.meta.address.position = EntryStart(Len(hist))
    /\ \A k \in 1..Len(WrittenINodes) :
         /\ WrittenINodes[k].left.position < WrittenEntry.enode.meta.address.position
         /\ WrittenINodes[k].left.i \in 1..(Len(hist) - 1)
         /\ WrittenINodes[k].left.position = EntryStart(WrittenINodes[k].left.i)
         /\ WrittenINodes[k].right.position = WrittenEntry.enode.meta.address.position
         /\ WrittenINodes[k].meta.address.position
              = WrittenEntry.enode.meta.address.position
    /\ read_inodes(storage, EntryStart(Len(hist)))
         = Ok([inodes |-> WrittenINodes,
               pos |-> EntryStart(Len(hist)) + 9 + INodeSize * Len(WrittenINodes)])

\* the sixth append wrote (6, 1) and (6, 3), whose left children are in the
\* entries 5 and 4
C25_Witness ==
  /\ Appended
  /\ Len(hist) = 6
  /\ Len(WrittenINodes) = 2
  /\ WrittenINodes[1].left.position = EntryStart(5)
  /\ WrittenINodes[2].left.position = EntryStart(4)
  /\ EntryStart(4) < EntryStart(5) /\ EntryStart(5) < EntryStart(6)

\* the leaves of the payloads appended, as Value::to_node gives them
LeafNodes == [k \in 1..Len(hist) |-> to_node(Value(k, hist[k].value))]

\* C26: for every n >= 1, the root the n-th append returns is the node the
\* leaves of the n payloads fold to, level by level, two by two from the left
\* with an unmatched last element carried to the next level: the same hash,
\* and the j of the folded node is the height of the tree
C26_IncrementalEqualsBatch ==
  Appended =>
    /\ FoldValues(LeafNodes).hash = ret.res.value.hash
    /\ Some(FoldValues(LeafNodes).hash) = root_hash(latest_cache)
    /\ FoldValues(LeafNodes).j = height(latest_cache)
    /\ FoldValues(LeafNodes).i = Len(hist)

\* the seventh append: the fold carries an element over on its first level
C26_Witness ==
  /\ Appended
  /\ Len(hist) = 7
  /\ Len(FoldLevel(LeafNodes)) = 4
  /\ FoldLevel(LeafNodes)[4] = LeafNodes[7]
  /\ FoldValues(LeafNodes) = ret.res.value
  /\ height(latest_cache) = 3

IsPowerOfTwo(n) == n >= 1 /\ 2 ^ FloorLog2(n) = n

\* the INode that is the root of the entry written
WrittenRoot == WrittenINodes[Len(WrittenINodes)]

\* C27: when the index n of an append is a power of two, n >= 2, the entry
\* written holds exactly log2(n) INodes and the left child of the new root is
\* the root of the entry before it, entry n - 1
C27_PowerOfTwo ==
  (Appended /\ Len(hist) >= 2 /\ IsPowerOfTwo(Len(hist))) =>
    /\ Len(WrittenINodes) = FloorLog2(Len(hist))
    /\ WrittenRoot.left.i = Len(hist) - 1
    /\ WrittenRoot.left.j = hist[Len(hist) - 1].root.j
    /\ StoredHashOf(WrittenRoot.left) = Some(hist[Len(hist) - 1].root.hash)

\* C27, amended: when the index n of an append is a power of two, n >= 2, the
\* entry written holds exactly log2(n) INodes, of the heights 1..log2(n), the
\* new root has the height log2(n), and its left child is the root of the entry
\* n / 2, the root of generation n / 2; the left child of the lowest INode is
\* the leaf of the entry before, n - 1
C27_PowerOfTwoAmended ==
  (Appended /\ Len(hist) >= 2 /\ IsPowerOfTwo(Len(hist))) =>
    /\ Len(WrittenINodes) = FloorLog2(Len(hist))
    /\ \A k \in 1..Len(WrittenINodes) : WrittenINodes[k].meta.address.j = k
    /\ ret.res.value.j = FloorLog2(Len(hist))
    /\ WrittenRoot.left.i = Len(hist) \div 2
    /\ WrittenRoot.left.j = hist[Len(hist) \div 2].root.j
    /\ WrittenRoot.left.position = EntryStart(Len(hist) \div 2)
    /\ StoredHashOf(WrittenRoot.left) = Some(hist[Len(hist) \div 2].root.hash)
    /\ WrittenINodes[1].left.i = Len(hist) - 1
    /\ WrittenINodes[1].left.j = 0

\* the eighth append wrote three INodes; the left child of (8, 3) is (4, 2)
C27_Witness ==
  /\ Appended
  /\ Len(hist) = 8
  /\ Len(WrittenINodes) = 3
  /\ WrittenRoot.left.i = 4 /\ WrittenRoot.left.j = 2
  /\ hist[4].root.j = 2 /\ hist[7].root.j = 3

\* the siblings of the nodes on the way from the node over lo..hi down to
\* b_{i,j}, in the order of the descent
RECURSIVE SiblingsFrom(_, _, _, _)
SiblingsFrom(lo, hi, i, j) ==
  IF SubtreeRoot(lo, hi) = [i |-> i, j |-> j] \/ lo >= hi THEN <<>>
  ELSE IF i <= LeftEnd(lo, hi)
    THEN <<SubtreeRoot(LeftEnd(lo, hi) + 1, hi)>> \o SiblingsFrom(lo, LeftEnd(lo, hi), i, j)
    ELSE <<SubtreeRoot(lo, LeftEnd(lo, hi))>> \o SiblingsFrom(LeftEnd(lo, hi) + 1, hi, i, j)

\* the addresses (i, j) of the branches of the result returned
ReturnedBranches ==
  [k \in 1..Len(Unwrap(ret.res.value).branches) |->
     [i |-> Unwrap(ret.res.value).branches[k].i,
      j |-> Unwrap(ret.res.value).branches[k].j]]

\* C28: the branches of a result of get_values_with_hashes are the siblings met
\* on the descent from the root to the target, one per step of the path,
\* deepest first: the sibling of the target first, the sibling of the root's
\* child last
C28_BranchOrder ==
  (ReturnedValues /\ ReturnedSome /\ IsNodeOf(QueryN, ret.i, ret.j)) =>
    /\ Len(ReturnedBranches) = Len(Unwrap(path_to(QueryN, ret.i, ret.j)))
    /\ ReturnedBranches = Reverse(SiblingsFrom(1, QueryN, ret.i, ret.j))

\* C28, amended: the branches are the siblings met on the descent, one per step
\* of the path, in the order of the descent: the sibling of the root's child
\* first, the sibling of the target last
C28_BranchOrderAmended ==
  (ReturnedValues /\ ReturnedSome /\ IsNodeOf(QueryN, ret.i, ret.j)) =>
    /\ Len(ReturnedBranches) = Len(Unwrap(path_to(QueryN, ret.i, ret.j)))
    /\ ReturnedBranches = SiblingsFrom(1, QueryN, ret.i, ret.j)

\* the result for the leaf (5, 0) on generation 7: the branches (4, 2), (7, 0)
\* and (6, 0)
C28_Witness ==
  /\ ReturnedValues /\ ReturnedSome
  /\ QueryN = 7 /\ ret.i = 5 /\ ret.j = 0
  /\ ReturnedBranches = <<[i |-> 4, j |-> 2], [i |-> 7, j |-> 0], [i |-> 6, j |-> 0]>>

\* the passes of the loop of search_entry_position on the way from the root of
\* the generation to the entry of index i
HopsTo(gen, i) ==
  Bind(Unwrap(gen).last_entry, LAMBDA e :
    IF Len(e.inodes) = 0 \/ e.enode.meta.address.i = i THEN 0
    ELSE search_hops(storage, e.inodes[Len(e.inodes)], i, 0))

\* the descent from the root of the generation reaches every entry 1..n, in no
\* more passes than the height of the root
DescentBounded(gen) ==
  \A i \in 1..cache_n(gen) :
    /\ get_entry_position(gen, storage, i) = Ok(Some(EntryStart(i)))
    /\ HopsTo(gen, i) <= height(gen)
    /\ HopsTo(gen, i) <= INDEX_SIZE

\* C29: on a storage written by successful appends only, the descent from the
\* cached root to any index i in 1..n reaches the entry of the leaf i in at most
\* height() passes, so at most INDEX_SIZE; it ends, and returns neither the
\* 'internal state inconsistency' of the bound nor None
C29_BoundedDescent ==
  /\ (opened /\ IsSome(latest_cache)) => DescentBounded(latest_cache)
  /\ (IsSome(query) /\ IsSome(Unwrap(query))) => DescentBounded(Unwrap(query))

\* on the tree of 8 entries the descent to the entry 5 takes 3 passes, the
\* height of the root
C29_Witness ==
  /\ opened
  /\ cache_n(latest_cache) = 8
  /\ height(latest_cache) = 3
  /\ HopsTo(latest_cache, 5) = 3
  /\ get_entry_position(latest_cache, storage, 5) = Ok(Some(EntryStart(5)))

\* the left child that the plan of generation n + 1 names is found from the
\* cache of generation n in the storage, in an entry written before
LeftFound(planned) ==
  Bind(get_node(latest_cache, storage, planned.left.i, planned.left.j), LAMBDA found :
    /\ IsOk(found)
    /\ IsSome(found.value)
    /\ Unwrap(found.value).address.i = planned.left.i
    /\ Unwrap(found.value).address.j = planned.left.j
    /\ planned.left.i \in 1..cache_n(latest_cache)
    /\ Unwrap(found.value).address.position = EntryStart(planned.left.i)
    /\ Unwrap(found.value).address.position < Len(storage))

\* C30: on a storage written by successful appends only, every left child that
\* the geometry plans for the append of index i is found by the descent from
\* the cached root of generation i - 1, in an entry that exists, as its INode of
\* that height or as its leaf; so an append never fails with 'internal state
\* inconsistency' and needs no node of the entry it is writing
C30_LeftSiblingLookup ==
  /\ opened =>
       \A k \in 1..Len(model_inodes(cache_n(latest_cache) + 1)) :
         LeftFound(model_inodes(cache_n(latest_cache) + 1)[k])
  /\ (ret.op = "append") => IsOk(ret.res)

\* before the eighth append: the three left children (7, 0), (6, 1) and (4, 2)
C30_Witness ==
  /\ opened
  /\ cache_n(latest_cache) = 7
  /\ Len(model_inodes(8)) = 3
  /\ LeftFound(model_inodes(8)[1])
  /\ model_inodes(8)[1].left = [i |-> 4, j |-> 2]
  /\ model_inodes(8)[3].left = [i |-> 7, j |-> 0]

(***************************************************************************)
(* C31..C38                                                                *)
(***************************************************************************)
\* the offset at which the entry that the append wrote starts
WrittenStart == EntryStart(Len(hist))

\* the trailer offset of the entry that ends at the end of the storage
TailOffset == ReadInt(storage, Len(storage) - 12, 4)

\* C31: for every entry written by append, read_entry on the bytes written, from
\* the start of the entry, succeeds and gives the entry written: the same leaf
\* index, payload and leaf hash, and for each INode the same j, hash, left
\* address and right address, with right.j the j of the INode before it or 0
\* for the first; the trailer offset is the number of bytes of the body before
\* the offset field, and the cursor ends offset + 12 bytes after the start
C31_CodecRoundTrip ==
  Appended =>
    /\ read_entry(storage, WrittenStart, Len(hist))
         = Ok([entry |-> WrittenEntry, pos |-> Len(storage)])
    /\ read_entry(storage, WrittenStart, 0)
         = Ok([entry |-> WrittenEntry, pos |-> Len(storage)])
    /\ read_entry_without_check(storage, WrittenStart, Len(hist))
         = Ok([entry |-> WrittenEntry, pos |-> WrittenStart + TailOffset])
    /\ TailOffset = 8 + 1 + INodeSize * Len(WrittenINodes) + 4 + Len(ret.value) + HASH_SIZE
    /\ Len(storage) = WrittenStart + TailOffset + 12
    /\ WrittenEntry.enode.meta.address.i = Len(hist)
    /\ WrittenEntry.enode.payload = ret.value
    /\ WrittenEntry.enode.meta.hash = HashOf(ret.value)
    /\ \A k \in 1..Len(WrittenINodes) :
         WrittenINodes[k].right
           = Address(Len(hist),
                     IF k = 1 THEN 0 ELSE WrittenINodes[k - 1].meta.address.j,
                     WrittenStart)

\* the entry of the seventh append, with the INodes (7, 2) and (7, 3), read back
C31_Witness ==
  /\ Appended
  /\ Len(hist) = 7
  /\ Len(WrittenINodes) = 2
  /\ WrittenINodes[2].right.j = 2
  /\ TailOffset = 74
  /\ read_entry(storage, WrittenStart, 7) = Ok([entry |-> WrittenEntry, pos |-> Len(storage)])

\* the offset that the trailer at the end of the storage leads back to
TailHead == Len(storage) - 12 - TailOffset

\* an open of a storage long enough to hold a trailer, whose trailer leads back
\* to an offset after the header
OpenedAtTail ==
  /\ ret.op = "open"
  /\ Len(storage) >= 16
  /\ TailHead >= 4

\* the entry parsed at TailHead with the checksum verified is whole, and ends at
\* the offset `end`
ParsedEndsAt(end) ==
  Bind(read_entry(storage, TailHead, 0), LAMBDA re : IsOk(re) /\ re.value.pos = end)

\* the entry parsed at TailHead is whole and ends before or after the end of the
\* storage
ParsedEndsElsewhere ==
  Bind(read_entry(storage, TailHead, 0), LAMBDA re :
    IsOk(re) /\ re.value.pos # Len(storage))

\* the body parsed at TailHead is followed by an offset that is not its length
ParsedOffsetDisagrees ==
  Bind(read_entry_without_check(storage, TailHead, 0), LAMBDA re :
    /\ IsOk(re)
    /\ re.value.pos + 4 <= Len(storage)
    /\ ReadInt(storage, re.value.pos, 4) # re.value.pos - TailHead)

\* C32: on a storage of more than 4 bytes, open reads the 32-bit offset at
\* end - 12 and parses one entry, with its checksum verified, from
\* end - 12 - offset; it succeeds only if the parse ends at end, and then the
\* cache holds the entry parsed; if the entry parsed is whole but ends
\* elsewhere open fails with 'damaged storage', and if the offset after the
\* parsed body is not the length of the body it fails with 'incorrect entry
\* head offset'
C32_TailLocation ==
  /\ (ret.op = "open" /\ IsOk(ret.res) /\ Len(storage) > 4) =>
       /\ OpenedAtTail
       /\ ParsedEndsAt(Len(storage))
       /\ latest_cache = from_entry(Some(read_entry(storage, TailHead, 0).value.entry))
  /\ (OpenedAtTail /\ ParsedEndsAt(Len(storage))) => IsOk(ret.res)
  /\ (OpenedAtTail /\ ParsedEndsElsewhere) => ret.res = Err(DamagedStorage)
  /\ (OpenedAtTail /\ ParsedOffsetDisagrees) => ret.res = Err(IncorrectEntryHeadOffset)

\* an open of a storage of two entries and twelve bytes more, which lead back to
\* the first entry: the parse is whole and ends at the end of the first entry
C32_Witness ==
  /\ OpenedAtTail
  /\ Len(hist) = 2
  /\ Len(storage) = hist[2].end + 12
  /\ TailHead = 4
  /\ ParsedEndsAt(hist[1].end)
  /\ ret.res = Err(DamagedStorage)

\* C33: opening a storage with a valid header of 4 bytes and a length of 5 to 15
\* bytes, too short for a trailer of 12 bytes after the header, fails with
\* 'damaged storage' for every such length: the distance to move back is never
\* subtracted from a smaller position
C33_ShortBodies ==
  (/\ ret.op = "open"
   /\ Len(storage) \in 5..15
   /\ HasMagic(storage)
   /\ is_version_compatible(storage[4]))
    => ret.res = Err(DamagedStorage)

\* the offsets of the storage at which a whole entry stands: body, offset and
\* checksum, read with verification
CompleteEntries == {p \in 4..(Len(storage) - 1) : IsOk(read_entry(storage, p, 0))}

\* the offset at which the entry of the latest cache was written
CachedPosition == Unwrap(latest_cache).last_entry.enode.meta.address.position

\* C34: append replaces the latest cache only after the whole entry (body, offset
\* and checksum) is written to the tail; in every reachable state, appends whose
\* write failed included, the entry of the cache is whole in the storage and is
\* the last whole entry of the storage, and n() is at most the number of whole
\* entries of the storage
C34_CacheReplacementOrder ==
  (opened /\ tampered = None) =>
    /\ Bind(CompleteEntries, LAMBDA whole :
         /\ cache_n(latest_cache) <= Cardinality(whole)
         /\ IsSome(latest_cache) =>
              /\ CachedPosition \in whole
              /\ \A q \in whole : q <= CachedPosition)
    /\ IsSome(latest_cache) =>
         read_entry(storage, CachedPosition, cache_n(latest_cache))
           = Ok([entry |-> Unwrap(latest_cache).last_entry,
                 pos |-> IF TornTail THEN Len(storage) - Unwrap(torn) ELSE Len(storage)])
    /\ (ret.op = "append" /\ ~IsOk(ret.res)) =>
         cache_n(latest_cache) = ret.pre.n

\* an append on a tree of one entry failed after it wrote a part of its entry:
\* the cache still holds entry 1, whole in the storage, with the part after it
C34_Witness ==
  /\ opened
  /\ ret.op = "append"
  /\ ret.res = Err(IoError)
  /\ ret.i > 0
  /\ cache_n(latest_cache) = 1
  /\ CompleteEntries = {4}
  /\ Len(storage) > hist[1].end

\* C35: on the in-memory storage the write lock of the buffer is held for the
\* whole of an append's emit, so that a reader that takes the read lock at any
\* moment sees the storage without the new entry or with the whole new entry:
\* the header followed by whole entries, never a part of an entry
C35_AtomicEmit ==
  ret.op = "read" => WholeEntriesFrom(ret.res.value, 4, 1)

\* the length the storage had when the query in hand was made: the end of the
\* entry of its generation
CapturedTail == IF QueryN = 0 THEN Len(STORAGE_IDENTIFIER) + 1 ELSE hist[QueryN].end

\* the storage as it was when the query in hand was made: a read of a byte at
\* CapturedTail or beyond fails on it
BelowCapturedTail == SubSeq(storage, 1, CapturedTail)

\* C36: every byte that get or get_values_with_hashes of a query made at
\* generation m reads lies below the length the storage had then (the end of
\* entry m), whatever was appended since: on the storage without the bytes from
\* that length on, no read fails and the call returns the same
C36_ReadsBelowCapturedTail ==
  /\ (ret.op = "get" /\ IsSome(query) /\ tampered = None)
       => /\ IsOk(ret.res)
          /\ get(Unwrap(query), BelowCapturedTail, ret.i) = ret.res
  /\ (ret.op = "get_values_with_hashes" /\ IsSome(query) /\ tampered = None)
       => /\ IsOk(ret.res)
          /\ get_values_with_hashes(Unwrap(query), BelowCapturedTail, ret.i, ret.j)
               = ret.res

\* a query made at generation 2 returns the two values under b_{2,1} after two
\* more entries were appended
C36_Witness ==
  /\ IsSome(query)
  /\ QueryN = 2
  /\ Len(hist) = 4
  /\ Len(storage) > CapturedTail
  /\ ret.op = "get_values_with_hashes"
  /\ ret.i = 2
  /\ ret.j = 1
  /\ IsOk(ret.res)
  /\ IsSome(ret.res.value)
  /\ Len(Unwrap(ret.res.value).values) = 2

\* the index the reader takes the k-th entry of the storage to have, no index
\* expected: that of its first INode, or 1 when it has none
ReadIndex(k) ==
  Bind(read_entry_without_check(storage, EntryStart(k), 0), LAMBDA re :
    IF IsOk(re) THEN Some(re.value.entry.enode.meta.address.i) ELSE None)

\* C37: an entry written by append holds no INode exactly when its index is 1,
\* and its root is then its leaf; every entry of index 2 or more holds at least
\* one INode and its last INode is the root of its generation; so the index the
\* reader takes from the first INode, or 1 when there is none, is the index
\* stored in the entry, for every entry
C37_OnlyFirstWithoutINodes ==
  Appended =>
    /\ (Len(WrittenINodes) = 0) <=> (Len(hist) = 1)
    /\ storage[WrittenStart + 9] = Len(WrittenINodes)
    /\ Len(hist) = 1 => for_node(WrittenEntry.enode.meta) = ret.res.value
    /\ Len(hist) >= 2 =>
         /\ Len(WrittenINodes) >= 1
         /\ for_node(WrittenRoot.meta) = ret.res.value
         /\ WrittenRoot.meta.address.i = Len(hist)
         /\ WrittenRoot.meta.address.j = CeilLog2(Len(hist))
    /\ \A k \in 1..Len(hist) :
         /\ ReadInt(storage, EntryStart(k), 8) = k
         /\ ReadIndex(k) = Some(k)

\* entry 5 is written with one INode, its root b_{5,3}, after entry 1 with none
C37_Witness ==
  /\ Appended
  /\ Len(hist) = 5
  /\ Len(WrittenINodes) = 1
  /\ WrittenRoot.meta.address.j = 3
  /\ storage[EntryStart(1) + 9] = 0
  /\ storage[WrittenStart + 9] = 1
  /\ ReadIndex(1) = Some(1)
  /\ ReadIndex(5) = Some(5)

====
